---- MODULE Spec2Model ----
(***************************************************************************)
(* A model of rsciio/mrcz/api.py: the MRCZ reader and writer adapters.     *)
(*                                                                         *)
(* Python values are written as follows: a float or a str is the string    *)
(* of its literal ("1.0", "nm"), None is the string "None", an int is an   *)
(* integer, a dict is a function whose domain is its set of keys, a list   *)
(* is a sequence.  Objects whose identity matters (the structures that a   *)
(* caller keeps after a read) live in `heap` and are named by integers.    *)
(***************************************************************************)
EXTENDS Integers, Sequences, FiniteSets, TLC

VARIABLES
    disk,       \* the files on disk: filename -> the MRCZ file stored there
    pending,    \* encode jobs handed to asyncWriteMRC that have not run yet
    written,    \* history: filename -> axis scales of the signal the file was written from
    heap,       \* object id -> contents of a live Python object
    results,    \* the signal dictionaries the caller still holds (object ids)
    npokes,     \* how many in-place modifications the caller has made
    op,         \* the entry point that ran last
    args,       \* its arguments
    calls,      \* the calls it made into the mrcz codec, in order
    outcome     \* what it returned or raised

vars == <<disk, pending, written, heap, results, npokes, op, args, calls, outcome>>

----------------------------------------------------------------------------
(* Bounds *)

MaxReads == 2       \* results the caller keeps alive
MaxPokes == 1       \* in-place modifications the caller makes
MaxPending == 1     \* asynchronous encode jobs in flight

----------------------------------------------------------------------------
(* Python values and dict operations *)

None == "None"

EmptyDict == [k \in {} |-> None]

DictSet(d, k, v) == [x \in (DOMAIN d) \cup {k} |-> IF x = k THEN v ELSE d[x]]

DictPop(d, k) == [x \in (DOMAIN d) \ {k} |-> d[x]]

\* f(**kwds) on top of the explicitly named keyword arguments
DictMerge(a, b) == [x \in (DOMAIN a) \cup (DOMAIN b) |-> IF x \in DOMAIN b THEN b[x] ELSE a[x]]

Raised(error) == [status |-> "raised", error |-> error, ret |-> <<>>]

Returned(value) == [status |-> "ok", error |-> None, ret |-> value]

----------------------------------------------------------------------------
(* Module-level constants of api.py *)

\* a faulty variant: "voltage" forgotten in the list
POP_FROM_HEADER_WithoutVoltage ==
    << "compressor", "MRCtype", "C3", "dimensions", "dtype", "extendedBytes",
       "gain", "maxImage", "minImage", "meanImage", "metaId", "packedBytes",
       "pixelsize", "pixelunits" >>

POP_FROM_HEADER ==
    << "compressor", "MRCtype", "C3", "dimensions", "dtype", "extendedBytes",
       "gain", "maxImage", "minImage", "meanImage", "metaId", "packedBytes",
       "pixelsize", "pixelunits", "voltage" >>

READ_ORDER == <<1, 2, 0>>

\* a faulty variant: the read order used for writing as well
WRITE_ORDER_AsRead == <<1, 2, 0>>

WRITE_ORDER == <<0, 1, 2>>

\* the module-level dict `mapping`: header path -> (metadata path, transform)
mapping ==
    [ k \in {"mrcz_header.voltage", "mrcz_header.gain"} |->
        IF k = "mrcz_header.voltage"
        THEN <<"Acquisition_instrument.TEM.beam_energy", "_parse_metadata">>
        ELSE <<"Signal.Noise_properties.Variance_linear_model.gain_factor", "_parse_metadata">> ]

\* the object id of the module-level dict
ModuleMapping == 0

----------------------------------------------------------------------------
(* The mrcz codec, as the adapter sees it: it stores what it is given and  *)
(* hands it back.                                                          *)

\* the format's own fields, which every header of a well-formed file carries
MrczHeaderKeys ==
    { "compressor", "MRCtype", "C3", "dimensions", "dtype", "extendedBytes",
      "gain", "maxImage", "minImage", "meanImage", "metaId", "packedBytes",
      "pixelsize", "pixelunits", "voltage" }

\* the header readMRC returns for a file that writeMRC produced from kw
EncodeHeader(data, kw) ==
    [ k \in MrczHeaderKeys \cup {"clevel"} |->
        CASE k = "compressor" -> kw.compressor
          [] k = "C3"         -> kw.C3
          [] k = "dimensions" -> data.shape
          [] k = "gain"       -> kw.gain
          [] k = "pixelsize"  -> kw.pixelsize
          [] k = "pixelunits" -> kw.pixelunits
          [] k = "voltage"    -> kw.voltage
          [] k = "clevel"     -> kw.clevel
          [] OTHER            -> "0" ]

EncodeFile(data, kw) == [data |-> data, header |-> EncodeHeader(data, kw), meta |-> kw.meta]

\* _mrcz.readMRC(filename, **kw): (data, header), or the codec's own error
readMRC(filename, kw) ==
    IF filename \notin DOMAIN disk
    THEN Raised("FileNotFoundError")
    ELSE Returned(<<disk[filename].data, disk[filename].header>>)

----------------------------------------------------------------------------
(* file_reader *)

\* a faulty variant: read-only memory maps let through
MmapModeSupported_WithR(mmap_mode) == mmap_mode \in {"c", "r"}

MmapModeSupported(mmap_mode) == mmap_mode = "c"

\* a faulty variant: the two conventions swapped
MrczEndian_Swapped(endianess) == IF endianess = "<" THEN "be" ELSE "le"

MrczEndian(endianess) == IF endianess = "<" THEN "le" ELSE "be"

ReadKwargs(endianess, lazy, kwds) ==
    DictMerge([endian |-> MrczEndian(endianess), useMemmap |-> lazy, pixelunits |-> "nm"], kwds)

names == <<"y", "x", "z">>

navigate == <<FALSE, FALSE, TRUE>>

\* one axis dict of the list comprehension; index and hsIndex count from 0
Axis(data, mrcz_header, index, hsIndex, nav) ==
    [ size           |-> data.shape[hsIndex + 1],
      index_in_array |-> hsIndex,
      name           |-> names[index + 1],
      scale          |-> mrcz_header["pixelsize"][hsIndex + 1],
      offset         |-> "0.0",
      units          |-> mrcz_header["pixelunits"],
      navigate       |-> nav ]

BuildAxes(data, mrcz_header) ==
    [ i \in 1..Len(READ_ORDER) |-> Axis(data, mrcz_header, i - 1, READ_ORDER[i], navigate[i]) ]

\* a faulty variant: the axes left in the order they were built in
ReorderAxes_Omitted(axes) == axes

\* axes.insert(0, axes.pop(2))
ReorderAxes(axes) ==
    <<axes[3]>> \o SubSeq(axes, 1, 2) \o SubSeq(axes, 4, Len(axes))

\* a faulty variant: metadata.pop(popTarget, None), which skips a missing key
RECURSIVE PopFromHeader_Defensive(_, _)
PopFromHeader_Defensive(metadata, i) ==
    IF i > Len(POP_FROM_HEADER)
    THEN Returned(metadata)
    ELSE PopFromHeader_Defensive(DictPop(metadata, POP_FROM_HEADER[i]), i + 1)

\* the loop `for popTarget in _POP_FROM_HEADER: metadata.pop(popTarget)`, from
\* position i on; dict.pop without a default raises KeyError on a missing key
RECURSIVE PopFromHeader(_, _)
PopFromHeader(metadata, i) ==
    IF i > Len(POP_FROM_HEADER)
    THEN Returned(metadata)
    ELSE IF POP_FROM_HEADER[i] \notin DOMAIN metadata
         THEN Raised("KeyError")
         ELSE PopFromHeader(DictPop(metadata, POP_FROM_HEADER[i]), i + 1)

\* the whole function: the codec calls it makes and what it returns or raises
file_reader(filename, endianess, lazy, mmap_mode, kwds) ==
    IF ~MmapModeSupported(mmap_mode)
    THEN [calls |-> <<>>, outcome |-> Raised("ValueError")]
    ELSE
      LET kw      == ReadKwargs(endianess, lazy, kwds)
          call    == [fn |-> "readMRC", filename |-> filename, kw |-> kw]
          decoded == readMRC(filename, kw)
      IN  IF decoded.status = "raised"
          THEN [calls |-> <<call>>, outcome |-> decoded]
          ELSE
            LET data        == decoded.ret[1]
                mrcz_header == decoded.ret[2]
            IN  \* mrcz_header["pixelsize"] and mrcz_header["pixelunits"] in the
                \* axis dicts raise KeyError when the header lacks the key
                IF {"pixelsize", "pixelunits"} \subseteq DOMAIN mrcz_header
                THEN LET axes   == ReorderAxes(BuildAxes(data, mrcz_header))
                         pruned == PopFromHeader(mrcz_header, 1)
                     IN  IF pruned.status = "raised"
                         THEN [calls |-> <<call>>, outcome |-> pruned]
                         ELSE [calls |-> <<call>>,
                               outcome |-> Returned(<<
                                   [ data              |-> data,
                                     axes              |-> axes,
                                     metadata          |-> pruned.ret,
                                     original_metadata |-> [mrcz_header |-> mrcz_header],
                                     mapping           |-> heap[ModuleMapping] ] >>)]
                ELSE [calls |-> <<call>>, outcome |-> Raised("KeyError")]

----------------------------------------------------------------------------
(* file_writer *)

\* DTBox(tree, box_dots=True).get("a.b.c", default): the value at the dotted
\* path, the default as soon as one key of the path is missing
RECURSIVE BoxGet(_, _, _)
BoxGet(tree, path, default) ==
    IF path = <<>>
    THEN tree
    ELSE IF Head(path) \in DOMAIN tree
         THEN BoxGet(tree[Head(path)], Tail(path), default)
         ELSE default

\* kwds.pop("endianess", "<"): the value, and kwds without the key
PopEndianess(kwds) ==
    [ value |-> IF "endianess" \in DOMAIN kwds THEN kwds["endianess"] ELSE "<",
      kwds  |-> DictPop(kwds, "endianess") ]

\* signal["axes"][-1]["units"]
PixelUnits(signal) == signal.axes[Len(signal.axes)].units

\* [signal["axes"][I]["scale"] for I in _WRITE_ORDER]
PixelSize(signal) == [ i \in 1..Len(WRITE_ORDER) |-> signal.axes[WRITE_ORDER[i] + 1].scale ]

Voltage(md) == BoxGet(md, <<"Acquisition_instrument", "TEM", "beam_energy">>, None)

C3 == "0.0"

\* a faulty variant: the default left out of md.get
Gain_WithoutDefault(md) ==
    BoxGet(md, <<"Signal", "Noise_properties", "Variance_linear_model", "gain_factor">>, None)

Gain(md) ==
    BoxGet(md, <<"Signal", "Noise_properties", "Variance_linear_model", "gain_factor">>, "1.0")

\* a faulty variant: the flag ignored
EncodeRoutine_AlwaysSync(do_async) == "writeMRC"

\* which routine of the codec the if/else selects
EncodeRoutine(do_async) == IF do_async THEN "asyncWriteMRC" ELSE "writeMRC"

\* the keyword arguments of the asyncWriteMRC call
AsyncKwargs(md, mrcz_endian, pixelsize, pixelunits, voltage, gain, compressor, clevel, n_threads) ==
    [ meta |-> md, endian |-> mrcz_endian, pixelsize |-> pixelsize, pixelunits |-> pixelunits,
      voltage |-> voltage, C3 |-> C3, gain |-> gain, compressor |-> compressor,
      clevel |-> clevel, n_threads |-> n_threads ]

\* the keyword arguments of the writeMRC call
SyncKwargs(md, mrcz_endian, pixelsize, pixelunits, voltage, gain, compressor, clevel, n_threads) ==
    [ meta |-> md, endian |-> mrcz_endian, pixelsize |-> pixelsize, pixelunits |-> pixelunits,
      voltage |-> voltage, C3 |-> C3, gain |-> gain, compressor |-> compressor,
      clevel |-> clevel, n_threads |-> n_threads ]

\* the whole function; `fault` is what the codec does with the call: None when
\* it succeeds, otherwise the error it raises
file_writer(filename, signal, do_async, compressor, clevel, n_threads, kwds, fault) ==
    LET popped      == PopEndianess(kwds)
        mrcz_endian == MrczEndian(popped.value)
        md          == signal.metadata
        pixelunits  == PixelUnits(signal)
        pixelsize   == PixelSize(signal)
        voltage     == Voltage(md)
        gain        == Gain(md)
        kw          == IF do_async
                       THEN AsyncKwargs(md, mrcz_endian, pixelsize, pixelunits, voltage, gain,
                                        compressor, clevel, n_threads)
                       ELSE SyncKwargs(md, mrcz_endian, pixelsize, pixelunits, voltage, gain,
                                       compressor, clevel, n_threads)
        call        == [ fn |-> EncodeRoutine(do_async), data |-> signal.data,
                         filename |-> filename, kw |-> kw, raised |-> fault ]
    IN  [ calls   |-> <<call>>,
          kwds    |-> popped.kwds,
          outcome |-> IF fault = None THEN Returned(None) ELSE Raised(fault) ]

----------------------------------------------------------------------------
(* The caller and the codec: what happens around the two entry points *)

Filenames == {"a.mrcz", "b.mrcz"}

\* a faulty variant: every call hands out the same objects again
AllocBase_Reused(kept) == 1

\* where a kept result's objects go: a call creates its objects anew
AllocBase(kept) == 1 + 5 * Len(kept)

\* the object ids of a returned dictionary's values, as built by
\* `dictionary = {...}`: "mapping" is the module-level dict itself
NewRefs(base) ==
    [ data |-> base, axes |-> base + 1, metadata |-> base + 2,
      original_metadata |-> base + 3, mapping |-> ModuleMapping ]

\* the id of the header object that original_metadata["mrcz_header"] names
HeaderRef(refs) == refs.original_metadata + 1

\* the heap once the objects of the returned dictionary d are kept under refs
Store(h, refs, d) ==
    [ id \in (DOMAIN h) \cup {refs.data, refs.axes, refs.metadata,
                              refs.original_metadata, HeaderRef(refs)} |->
        CASE id = refs.data              -> d.data
          [] id = refs.axes              -> d.axes
          [] id = refs.metadata          -> d.metadata
          [] id = refs.original_metadata -> [mrcz_header |-> HeaderRef(refs)]
          [] id = HeaderRef(refs)        -> d.original_metadata.mrcz_header
          [] OTHER                       -> h[id] ]

\* a kept dictionary as the caller reads it in heap h, references followed
View(h, refs) ==
    [ data              |-> h[refs.data],
      axes              |-> h[refs.axes],
      metadata          |-> h[refs.metadata],
      original_metadata |-> [ k \in DOMAIN h[refs.original_metadata] |->
                                IF k = "mrcz_header"
                                THEN h[h[refs.original_metadata][k]]
                                ELSE h[refs.original_metadata][k] ],
      mapping           |-> h[refs.mapping] ]

FileReader(filename, endianess, lazy, mmap_mode, kwds, keep) ==
    /\ keep => Len(results) < MaxReads
    /\ LET r == file_reader(filename, endianess, lazy, mmap_mode, kwds)
       IN  /\ op' = "file_reader"
           /\ args' = [ filename |-> filename, endianess |-> endianess, lazy |-> lazy,
                        mmap_mode |-> mmap_mode, kwds |-> kwds ]
           /\ calls' = r.calls
           /\ outcome' = r.outcome
           /\ IF keep /\ r.outcome.status = "ok"
              THEN LET refs == NewRefs(AllocBase(results))
                   IN  /\ heap' = Store(heap, refs, r.outcome.ret[1])
                       /\ results' = Append(results, refs)
              ELSE UNCHANGED <<heap, results>>
    /\ UNCHANGED <<disk, pending, written, npokes>>

Components == {"data", "axes", "metadata", "original_metadata", "mrcz_header", "mapping"}

\* the object the caller reaches as dictionary[comp]
\* (as dictionary["original_metadata"]["mrcz_header"] for the header)
Target(refs, comp) ==
    IF comp = "mrcz_header"
    THEN heap[refs.original_metadata]["mrcz_header"]
    ELSE refs[comp]

\* an in-place modification: a data element, an axis' scale, a new dict key
Poke(comp, x) ==
    CASE comp = "data" -> [x EXCEPT !.fill = "poked"]
      [] comp = "axes" -> [x EXCEPT ![1].scale = "poked"]
      [] OTHER         -> DictSet(x, "poked", "1")

\* the caller modifies, in place, a structure that a read returned
Mutate(slot, comp) ==
    /\ npokes < MaxPokes
    /\ slot \in 1..Len(results)
    /\ LET id == Target(results[slot], comp)
       IN  /\ Poke(comp, heap[id]) # heap[id]
           /\ heap' = [heap EXCEPT ![id] = Poke(comp, heap[id])]
    /\ npokes' = npokes + 1
    /\ op' = "mutate"
    /\ args' = [slot |-> slot, comp |-> comp]
    /\ calls' = <<>>
    /\ outcome' = Returned(None)
    /\ UNCHANGED <<disk, pending, written, results>>

Scales(axes) == [ i \in 1..Len(axes) |-> axes[i].scale ]

FileWriter(filename, signal, do_async, compressor, clevel, n_threads, kwds, fault) ==
    /\ do_async => Len(pending) < MaxPending
    /\ LET w == file_writer(filename, signal, do_async, compressor, clevel, n_threads, kwds, fault)
           c == w.calls[1]
       IN  /\ op' = "file_writer"
           /\ args' = [ filename |-> filename, signal |-> signal, do_async |-> do_async,
                        compressor |-> compressor, clevel |-> clevel,
                        n_threads |-> n_threads, kwds |-> kwds ]
           /\ calls' = w.calls
           /\ outcome' = [ status |-> w.outcome.status, error |-> w.outcome.error,
                           ret |-> w.outcome.ret, kwds |-> w.kwds ]
           /\ IF c.raised # None
              THEN UNCHANGED <<disk, pending, written>>
              ELSE IF c.fn = "asyncWriteMRC"
                   THEN /\ pending' = Append(pending, [call |-> c, origin |-> Scales(signal.axes)])
                        /\ UNCHANGED <<disk, written>>
                   ELSE /\ disk' = DictSet(disk, c.filename, EncodeFile(c.data, c.kw))
                        /\ written' = [written EXCEPT ![c.filename] = Scales(signal.axes)]
                        /\ UNCHANGED pending
    /\ UNCHANGED <<heap, results, npokes>>

\* the codec's background thread carries out the oldest asynchronous job
AsyncComplete ==
    /\ pending # <<>>
    /\ LET job == Head(pending)
       IN  /\ disk' = DictSet(disk, job.call.filename, EncodeFile(job.call.data, job.call.kw))
           /\ written' = [written EXCEPT ![job.call.filename] = job.origin]
    /\ pending' = Tail(pending)
    /\ op' = "codec"
    /\ args' = EmptyDict
    /\ calls' = <<>>
    /\ outcome' = Returned(None)
    /\ UNCHANGED <<heap, results, npokes>>

----------------------------------------------------------------------------------------------------------------------------------------
(* Inputs *)

ScaleVals == {"1.0", "2.0", "3.0"}

ScaleTriples == [1..3 -> ScaleVals]

\* the triples that tell every two orders of three axes apart, and a uniform one
DistinctTriples ==
    { t \in ScaleTriples : Cardinality({t[1], t[2], t[3]}) = 3 } \cup { <<"2.0", "2.0", "2.0">> }

Shapes == {<<2, 3, 4>>, <<5, 5, 2>>}

\* a signal dictionary as the caller hands it to file_writer
SignalOf(shape, scales, units, md) ==
    [ data     |-> [shape |-> shape, fill |-> "signal"],
      axes     |-> [ i \in 1..3 |->
                       [ size |-> shape[i], index_in_array |-> i - 1,
                         name |-> <<"z", "y", "x">>[i], scale |-> scales[i],
                         offset |-> "0.0", units |-> units[i], navigate |-> (i = 1) ] ],
      metadata |-> md ]

\* the metadata trees: each of the two dotted paths present, or cut at some key
AcquisitionTrees ==
    { EmptyDict,
      [Acquisition_instrument |-> EmptyDict],
      [Acquisition_instrument |-> [TEM |-> [beam_energy |-> "200.0"]]] }

SignalTrees ==
    { EmptyDict,
      [Signal |-> [Noise_properties |-> EmptyDict]],
      [Signal |-> [Noise_properties |-> [Variance_linear_model |-> [gain_factor |-> "2.5"]]]] }

MetadataTrees == { DictMerge(a, s) : a \in AcquisitionTrees, s \in SignalTrees }

\* signals that differ in their axis scales
ScaleSignals ==
    { SignalOf(<<2, 3, 4>>, t, <<"nm", "nm", "nm">>, EmptyDict) : t \in DistinctTriples }

\* signals that differ in their metadata
MetadataSignals ==
    { SignalOf(<<2, 3, 4>>, <<"1.0", "2.0", "3.0">>, <<"s", "nm", "nm">>, md) : md \in MetadataTrees }

PlainSignal == SignalOf(<<2, 3, 4>>, <<"1.0", "2.0", "3.0">>, <<"nm", "nm", "nm">>, EmptyDict)

EndianessValues == {"<", ">", "="}

\* **kwds of file_writer: with or without the override, with or without more
WriterKwds ==
    { EmptyDict, [blocksize |-> 64] }
    \cup { [endianess |-> e] : e \in EndianessValues }
    \cup { [endianess |-> e, blocksize |-> 64] : e \in EndianessValues }

\* **kwds of file_reader
ReaderKwds == { EmptyDict, [slices |-> 1] }

CodecFaults == {None, "IOError"}

\* a header as readMRC returns it for a file that some program wrote
ForeignHeader(shape, pixelsize, pixelunits, extra, missing) ==
    [ k \in (MrczHeaderKeys \cup extra) \ missing |->
        CASE k = "dimensions" -> shape
          [] k = "pixelsize"  -> pixelsize
          [] k = "pixelunits" -> pixelunits
          [] OTHER            -> "0" ]

ForeignFile(shape, pixelsize, pixelunits, extra, missing) ==
    [ data   |-> [shape |-> shape, fill |-> "file"],
      header |-> ForeignHeader(shape, pixelsize, pixelunits, extra, missing),
      meta   |-> EmptyDict ]

\* files with every header key, and files that lack one
ForeignFiles ==
    { ForeignFile(sh, t, u, x, {}) :
        sh \in Shapes, t \in ScaleTriples, u \in {"nm", "um"}, x \in {{}, {"clevel", "blocksize"}} }
    \cup { ForeignFile(<<2, 3, 4>>, <<"1.0", "2.0", "3.0">>, "nm", {"clevel"}, {k}) : k \in MrczHeaderKeys }

----------------------------------------------------------------------------
(* Specifications *)

InitWith(d) ==
    /\ disk = d
    /\ pending = <<>>
    /\ written = [f \in Filenames |-> <<>>]
    /\ heap = [id \in {ModuleMapping} |-> mapping]
    /\ results = <<>>
    /\ npokes = 0
    /\ op = "import"
    /\ args = EmptyDict
    /\ calls = <<>>
    /\ outcome = Returned(None)

\* writing signals and reading the files back
Init == InitWith(EmptyDict)

Next ==
    \/ \E signal \in ScaleSignals, do_async \in BOOLEAN, fault \in CodecFaults :
          FileWriter("a.mrcz", signal, do_async, None, 1, None, EmptyDict, fault)
    \/ AsyncComplete
    \/ \E mmap_mode \in {"c", "r"} :
          FileReader("a.mrcz", "<", FALSE, mmap_mode, EmptyDict, FALSE)

Spec == Init /\ [][Next]_vars

\* writing signals with all kinds of metadata
NextWrite ==
    \/ \E signal \in MetadataSignals, do_async \in BOOLEAN, fault \in CodecFaults :
          FileWriter("a.mrcz", signal, do_async, None, 1, None, EmptyDict, fault)
    \/ AsyncComplete

SpecWrite == Init /\ [][NextWrite]_vars

\* writing and reading with all kinds of options
NextOptions ==
    \/ \E do_async \in BOOLEAN, compressor \in {None, "zstd"}, kwds \in WriterKwds,
          fault \in CodecFaults :
          FileWriter("a.mrcz", PlainSignal, do_async, compressor, 1, 2, kwds, fault)
    \/ AsyncComplete
    \/ \E endianess \in EndianessValues, lazy \in BOOLEAN, kwds \in ReaderKwds :
          FileReader("a.mrcz", endianess, lazy, "c", kwds, FALSE)

SpecOptions == Init /\ [][NextOptions]_vars

\* reading files of any origin
InitRead ==
    \E file \in ForeignFiles : InitWith([f \in {"a.mrcz"} |-> file])

NextRead ==
    \E filename \in Filenames, endianess \in EndianessValues, lazy \in BOOLEAN,
       mmap_mode \in {"c", "r"}, kwds \in ReaderKwds :
       FileReader(filename, endianess, lazy, mmap_mode, kwds, FALSE)

SpecRead == InitRead /\ [][NextRead]_vars

\* a caller that keeps what it reads and modifies it in place
InitAlias ==
    InitWith([f \in Filenames |->
                IF f = "a.mrcz"
                THEN ForeignFile(<<2, 3, 4>>, <<"1.0", "2.0", "3.0">>, "nm", {"clevel"}, {})
                ELSE ForeignFile(<<5, 5, 2>>, <<"3.0", "3.0", "1.0">>, "nm", {}, {})])

NextAlias ==
    \/ \E filename \in Filenames, mmap_mode \in {"c", "r"} :
          FileReader(filename, "<", FALSE, mmap_mode, EmptyDict, TRUE)
    \/ \E slot \in 1..MaxReads, comp \in Components : Mutate(slot, comp)

SpecAlias == InitAlias /\ [][NextAlias]_vars

----------------------------------------------------------------------------
(* Properties *)

IsRead == op = "file_reader"

IsWrite == op = "file_writer"

ReadOk == IsRead /\ outcome.status = "ok"

\* C1: a file_reader call whose mmap_mode is not "c" raises ValueError, has
\* made no call to readMRC before it fails, and returns no signal dictionary.
C1_UnsupportedMmapFailsBeforeDecode ==
    (IsRead /\ args.mmap_mode # "c") =>
        /\ outcome.status = "raised"
        /\ outcome.error = "ValueError"
        /\ outcome.ret = <<>>
        /\ calls = <<>>

C1_Witness ==
    IsRead /\ args.mmap_mode = "r" /\ args.filename \in DOMAIN disk /\ outcome.error = "ValueError"

\* C2: reading a file that file_writer wrote from a signal with axis scales
\* [s0,s1,s2] returns axis descriptors whose scales are, in list order,
\* [s0,s1,s2] again.
C2_ScalesRoundTrip ==
    (ReadOk /\ written[args.filename] # <<>>) =>
        Scales(outcome.ret[1].axes) = written[args.filename]

C2_Witness ==
    ReadOk /\ written[args.filename] = <<"3.0", "1.0", "2.0">>

\* C3: a successful read returns exactly three axis descriptors; the i-th
\* (i = 0,1,2) has index_in_array i, the size of the array's i-th dimension
\* and the header's i-th pixel size as its scale; the names are z, y, x, only
\* the first navigates, offsets are 0.0 and units are the header's pixelunits.
C3_AxesFollowArrayOrder ==
    ReadOk =>
        LET file == disk[args.filename]
            axes == outcome.ret[1].axes
        IN  /\ Len(outcome.ret) = 1
            /\ Len(axes) = 3
            /\ \A i \in 1..3 :
                  /\ axes[i].index_in_array = i - 1
                  /\ axes[i].size = file.data.shape[i]
                  /\ axes[i].scale = file.header["pixelsize"][i]
                  /\ axes[i].name = <<"z", "y", "x">>[i]
                  /\ axes[i].navigate = (i = 1)
                  /\ axes[i].offset = "0.0"
                  /\ axes[i].units = file.header["pixelunits"]

C3_Witness ==
    /\ ReadOk
    /\ disk[args.filename].header["pixelsize"] = <<"2.0", "3.0", "1.0">>
    /\ disk[args.filename].header["pixelunits"] = "um"
    /\ disk[args.filename].data.shape = <<5, 5, 2>>

\* C4: after a successful read none of the 15 format-internal keys is a key
\* of the returned metadata, each of them is still in
\* original_metadata.mrcz_header with its decoded value, and every other
\* header key is in both with its decoded value.
C4_MetadataPruned ==
    ReadOk =>
        LET header   == disk[args.filename].header
            metadata == outcome.ret[1].metadata
            original == outcome.ret[1].original_metadata.mrcz_header
        IN  /\ \A k \in MrczHeaderKeys :
                  k \notin DOMAIN metadata /\ k \in DOMAIN original
            /\ original = header
            /\ \A k \in (DOMAIN header) \ MrczHeaderKeys :
                  k \in DOMAIN metadata /\ metadata[k] = header[k]
            /\ DOMAIN metadata \subseteq DOMAIN header

C4_Witness ==
    ReadOk /\ DOMAIN outcome.ret[1].metadata = {"clevel", "blocksize"}

\* C5: when the decoded header lacks one of the 15 format-internal keys,
\* file_reader raises KeyError and returns no signal dictionary, whichever
\* key it is.
C5_MissingKeyIsFatal ==
    (/\ IsRead
     /\ args.mmap_mode = "c"
     /\ args.filename \in DOMAIN disk
     /\ ~(MrczHeaderKeys \subseteq DOMAIN disk[args.filename].header)) =>
        /\ outcome.status = "raised"
        /\ outcome.error = "KeyError"
        /\ outcome.ret = <<>>

C5_Witness ==
    /\ IsRead
    /\ outcome.error = "KeyError"
    /\ MrczHeaderKeys \ DOMAIN disk[args.filename].header = {"voltage"}

HasBeamEnergy(md) ==
    /\ "Acquisition_instrument" \in DOMAIN md
    /\ "TEM" \in DOMAIN md["Acquisition_instrument"]
    /\ "beam_energy" \in DOMAIN md["Acquisition_instrument"]["TEM"]

HasGainFactor(md) ==
    /\ "Signal" \in DOMAIN md
    /\ "Noise_properties" \in DOMAIN md["Signal"]
    /\ "Variance_linear_model" \in DOMAIN md["Signal"]["Noise_properties"]
    /\ "gain_factor" \in DOMAIN md["Signal"]["Noise_properties"]["Variance_linear_model"]

\* C6: file_writer does not raise when the beam energy or the gain factor is
\* missing from the metadata: the encode call gets voltage = None without a
\* beam energy and gain = 1.0 without a gain factor, the stored value when
\* the path is there, and always C3 = 0.0.
C6_MissingMetadataDefaults ==
    IsWrite =>
        LET md == args.signal.metadata
            kw == calls[1].kw
        IN  /\ Len(calls) = 1
            /\ calls[1].raised = None => outcome.status = "ok"
            /\ kw.voltage = IF HasBeamEnergy(md)
                            THEN md["Acquisition_instrument"]["TEM"]["beam_energy"]
                            ELSE None
            /\ kw.gain = IF HasGainFactor(md)
                         THEN md["Signal"]["Noise_properties"]["Variance_linear_model"]["gain_factor"]
                         ELSE "1.0"
            /\ kw.C3 = "0.0"

C6_Witness ==
    /\ IsWrite
    /\ args.signal.metadata = [Acquisition_instrument |-> EmptyDict]
    /\ outcome.status = "ok"
    /\ calls[1].kw.voltage = None
    /\ calls[1].kw.gain = "1.0"

\* C7 as stated: modifying any structure of one returned dictionary (data,
\* axes, metadata, original_metadata, mapping) changes no other returned
\* dictionary and no module-level state.
C7_NothingShared ==
    [][ op' = "mutate" =>
          /\ \A j \in 1..Len(results) :
                j # args'.slot => View(heap', results[j]) = View(heap, results[j])
          /\ heap'[ModuleMapping] = heap[ModuleMapping] ]_vars

\* C7, amended: the data, axes, metadata and original_metadata of a returned
\* dictionary are created by the call that returns it, so modifying them
\* changes no other returned dictionary and no module-level state; "mapping"
\* is the one module-level dict, the same object in every returned dictionary.
C7_FreshExceptMapping ==
    [][ /\ \A j \in 1..Len(results') : results'[j].mapping = ModuleMapping
        /\ (op' = "mutate" /\ args'.comp # "mapping") =>
              /\ \A j \in 1..Len(results) :
                    j # args'.slot => View(heap', results[j]) = View(heap, results[j])
              /\ heap'[ModuleMapping] = heap[ModuleMapping] ]_vars

C7_Witness ==
    /\ op = "mutate"
    /\ args.comp = "mrcz_header"
    /\ Len(results) = 2
    /\ "poked" \in DOMAIN View(heap, results[args.slot]).original_metadata.mrcz_header

EncodeKeywords ==
    { "meta", "endian", "pixelsize", "pixelunits", "voltage", "C3", "gain",
      "compressor", "clevel", "n_threads" }

\* C8: file_writer makes exactly one call into the codec, asyncWriteMRC when
\* do_async is true and writeMRC when it is false; the arguments of the call
\* are the same for both, and an error the routine raises is the error the
\* caller gets.
C8_OneEncodeCall ==
    IsWrite =>
        LET other == file_writer(args.filename, args.signal, ~args.do_async, args.compressor,
                                 args.clevel, args.n_threads, args.kwds, calls[1].raised)
        IN  /\ Len(calls) = 1
            /\ calls[1].fn = IF args.do_async THEN "asyncWriteMRC" ELSE "writeMRC"
            /\ other.calls[1].fn # calls[1].fn
            /\ calls[1].data = args.signal.data
            /\ calls[1].filename = args.filename
            /\ EncodeKeywords \subseteq DOMAIN calls[1].kw
            /\ calls[1].kw.meta = args.signal.metadata
            /\ calls[1].kw.compressor = args.compressor
            /\ calls[1].kw.clevel = args.clevel
            /\ calls[1].kw.n_threads = args.n_threads
            /\ other.calls[1].kw = calls[1].kw
            /\ other.calls[1].data = calls[1].data
            /\ other.calls[1].filename = calls[1].filename
            /\ calls[1].raised # None =>
                  outcome.status = "raised" /\ outcome.error = calls[1].raised

C8_Witness ==
    /\ IsWrite
    /\ args.do_async
    /\ calls[1].fn = "asyncWriteMRC"
    /\ calls[1].raised = "IOError"
    /\ outcome.error = "IOError"

\* C9: every keyword option given to file_writer, other than the endianess
\* override, is among the keyword arguments of the encode call.
C9_EncodeOptionsPassedOn ==
    IsWrite =>
        \A k \in (DOMAIN args.kwds) \ {"endianess"} :
            k \in DOMAIN calls[1].kw /\ calls[1].kw[k] = args.kwds[k]

\* C10: file_reader gives readMRC endian "le" for "<" and "be" for ">";
\* file_writer gives the encode routine "le" without an override or with "<"
\* and "be" with ">", takes the override out of the options, and the codec
\* never gets anything but "le" or "be".
C10_EndianMapping ==
    /\ (IsRead /\ calls # <<>>) =>
          /\ args.endianess = "<" => calls[1].kw["endian"] = "le"
          /\ args.endianess = ">" => calls[1].kw["endian"] = "be"
          /\ calls[1].kw["endian"] \in {"le", "be"}
    /\ IsWrite =>
          LET override == IF "endianess" \in DOMAIN args.kwds THEN args.kwds["endianess"] ELSE "<"
          IN  /\ override = "<" => calls[1].kw["endian"] = "le"
              /\ override = ">" => calls[1].kw["endian"] = "be"
              /\ calls[1].kw["endian"] \in {"le", "be"}
              /\ "endianess" \notin DOMAIN outcome.kwds
              /\ "endianess" \notin DOMAIN calls[1].kw

C10_Witness ==
    /\ IsWrite
    /\ "endianess" \in DOMAIN args.kwds
    /\ args.kwds["endianess"] = ">"
    /\ calls[1].kw["endian"] = "be"

====
